---- MODULE Spec2Model ----
(***************************************************************************)
(* Model of src/modbus.js: the Modbus RTU master that polls holding        *)
(* registers over a Web Serial port.                                       *)
(*                                                                         *)
(* One step of the model is one task of the browser's event loop: a click   *)
(* handler, or the continuation of a suspended startPolling invocation      *)
(* when the promise it awaits settles (write, turnaround sleep, read,       *)
(* inter-cycle sleep).  Continuations that follow an already settled        *)
(* promise run in the same task, so a step carries an invocation from one   *)
(* suspension point to the next.                                            *)
(*                                                                         *)
(* The recording feature (isRecording, recordedData, RECORD entries) does   *)
(* not touch the transaction engine and is left out.                        *)
(***************************************************************************)
EXTENDS Integers, Sequences, FiniteSets, TLC

\* ------------------------------------------------------------------ bounds

\* Concurrent invocations of startPolling that may be alive at once.
MaxLoops == 2
\* Cap on the transaction counter.
MaxTid == 3
\* Rows of the register table (the page builds 10; the model keeps fewer).
NumRows == 3
\* Cap on the chunks the transport delivers to one await phase.
MaxReads == 2
\* Entries without a transaction id (rejected starts, failed connects) are
\* modelled among the first MaxNoTid entries of the log only.
MaxNoTid == 1

\* ------------------------------------------------- JavaScript numbers, text

\* A number is <<n>>; NaN is the empty tuple.
NaN == << >>

Num(n) == << n >>

isNaN(x) == x = NaN

Digits == << "0", "1", "2", "3", "4", "5", "6", "7", "8", "9" >>

IsDigit(c) == \E d \in 1..10 : Digits[d] = c

DigitVal(c) == (CHOOSE d \in 1..10 : Digits[d] = c) - 1

RECURSIVE SkipSpaces(_)
SkipSpaces(s) ==
    IF s # << >> /\ Head(s) = " " THEN SkipSpaces(Tail(s)) ELSE s

RECURSIVE DigitsValue(_, _, _)
\* Value of the longest digit prefix of s; acc is the value so far, seen
\* tells whether a digit was read.
DigitsValue(s, acc, seen) ==
    IF s # << >> /\ IsDigit(Head(s))
    THEN DigitsValue(Tail(s), 10 * acc + DigitVal(Head(s)), TRUE)
    ELSE IF seen THEN Num(acc) ELSE NaN

\* parseInt(text) in radix 10: leading blanks, an optional sign, then the
\* longest run of digits; NaN when there is no digit.
parseInt(text) ==
    LET s == SkipSpaces(text)
        neg == s # << >> /\ Head(s) = "-"
        signed == s # << >> /\ Head(s) \in {"-", "+"}
        r == DigitsValue(IF signed THEN Tail(s) ELSE s, 0, FALSE)
    IN IF isNaN(r) THEN NaN ELSE IF neg THEN Num(0 - r[1]) ELSE r

\* Storing a number into a Uint8Array element: NaN becomes 0, others wrap.
ToUint8(x) == IF isNaN(x) THEN 0 ELSE x[1] % 256

\* The integer a bitwise operator takes from a number: NaN becomes 0.
ToInt32(x) == IF isNaN(x) THEN 0 ELSE x[1]

\* ------------------------------------------------------------ bit operations

RECURSIVE XorBits(_, _)
\* a ^ b, bit by bit.
XorBits(a, b) ==
    IF a = 0 THEN b
    ELSE IF b = 0 THEN a
    ELSE ((a + b) % 2) + 2 * XorBits(a \div 2, b \div 2)

\* a ^ b for hexadecimal digits, tabulated.
XorNibble == [a \in 0..15 |-> [b \in 0..15 |-> XorBits(a, b)]]

RECURSIVE BitXor(_, _)
\* a ^ b for non-negative integers, a hexadecimal digit at a time.
BitXor(a, b) ==
    IF a = 0 THEN b
    ELSE IF b = 0 THEN a
    ELSE XorNibble[a % 16][b % 16] + 16 * BitXor(a \div 16, b \div 16)

\* ------------------------------------------------------------------ CRC-16

RECURSIVE CrcRounds(_, _)
\* The inner loop of calculateCRC: i shift-and-conditional-XOR rounds.
CrcRounds(crc, i) ==
    IF i = 0 THEN crc
    ELSE CrcRounds(IF crc % 2 = 1 THEN BitXor(crc \div 2, 40961) ELSE crc \div 2,
                   i - 1)

RECURSIVE CrcBytes(_, _)
\* The outer loop of calculateCRC.  The register is tested before the next
\* byte is taken so that it is a value, not a pending computation.
CrcBytes(crc, data) ==
    IF data = << >> \/ crc < 0 THEN crc
    ELSE CrcBytes(CrcRounds(BitXor(crc, Head(data)), 8), Tail(data))

\* A checksum written high byte first.
calculateCRCHighFirst(data) ==
    LET crc == CrcBytes(65535, data)
    IN << (crc \div 256) % 256, crc % 256 >>

\* calculateCRC(data): the two checksum bytes, low byte first.
calculateCRC(data) ==
    LET crc == CrcBytes(65535, data)
    IN << crc % 256, (crc \div 256) % 256 >>

\* A 7-byte reply [slave, 0x03, byte count, hi, lo, crc_lo, crc_hi].
RespFrame(slave, byteCount, hi, lo) ==
    LET d == << slave, 3, byteCount, hi, lo >> IN d \o calculateCRC(d)

GoodResp == RespFrame(1, 2, 128, 0)

BadCountResp == RespFrame(1, 4, 0, 1)

\* GoodResp with its last checksum byte damaged.
BadCrcResp == SubSeq(GoodResp, 1, 6) \o << (GoodResp[7] + 1) % 256 >>

\* What one resolved reader.read() may carry.
Chunks == { GoodResp, BadCountResp, BadCrcResp }

RECURSIVE Streams(_)
\* The byte streams of at most n chunks.
Streams(n) ==
    IF n = 0 THEN { << >> }
    ELSE LET S == Streams(n - 1) IN S \cup { s \o c : s \in S, c \in Chunks }

\* Texts the user may type into the slave address field.
SlaveTexts == { << "1" >>, << "3", "0", "0" >>, << "a" >> }

\* The register table as configured: row i polls register i, odd rows are
\* signed, and the second row holds a non-numeric address.
ConfiguredRows ==
    [i \in 1..NumRows |->
        [regAddress |-> IF i = 2 THEN << "a" >> ELSE << Digits[(i % 9) + 1] >>,
         signedCheck |-> (i % 2 = 1),
         valueDisplay |-> << >>]]

\* The six message bytes of the requests the page can build: the slave
\* texts give the bytes 1, 300 % 256 and 0 (NaN), row i polls register i.
RequestData ==
    { << slave, 3, 0, reg, 0, 1 >> : slave \in { 0, 1, 44 }, reg \in 1..NumRows }

\* calculateCRC tabulated once for the data part of every 7-byte window of
\* the streams the transport can deliver to one await phase, and for the
\* requests of the page.
TabulatedData ==
    UNION { { SubSeq(s, i, i + 4) : i \in 1..(Len(s) - 6) } : s \in Streams(MaxReads) }
        \cup RequestData

CRCTable == [d \in TabulatedData |-> calculateCRC(d)]

\* calculateCRC(data), read from the table where it is tabulated.
CRC(data) == IF data \in TabulatedData THEN CRCTable[data] ELSE calculateCRC(data)

\* validateFrame(frame): at least 7 bytes and the trailing two bytes are the
\* CRC of the rest.
validateFrame(frame) ==
    IF Len(frame) < 7 THEN FALSE
    ELSE LET n == Len(frame)
             data == SubSeq(frame, 1, n - 2)
             calculatedCRC == CRC(data)
         IN frame[n - 1] = calculatedCRC[1] /\ frame[n] = calculatedCRC[2]

\* createModbusFrame(slave, reg): slave is a number (possibly NaN), reg an
\* integer; the six message bytes are stored in a Uint8Array.
createModbusFrame(slave, reg) ==
    LET message == << ToUint8(slave), 3, (reg \div 256) % 256, reg % 256, 0, 1 >>
    IN message \o CRC(message)

\* No frame found.
NoFrame == [found |-> FALSE, frame |-> << >>, remaining |-> << >>, skipped |-> 0]

RECURSIVE ScanFrom(_, _)
\* The for loop of extractFrame from 0-based offset i.  skipped counts the
\* candidate windows that were tested and failed validateFrame.
ScanFrom(buffer, i) ==
    IF i > Len(buffer) - 7 THEN [NoFrame EXCEPT !.skipped = i]
    ELSE LET candidate == SubSeq(buffer, i + 1, i + 7)
         IN IF validateFrame(candidate)
            THEN [found |-> TRUE, frame |-> candidate,
                  remaining |-> SubSeq(buffer, i + 8, Len(buffer)),
                  skipped |-> i]
            ELSE ScanFrom(buffer, i + 1)

extractFrame(buffer) == ScanFrom(buffer, 0)

\* ------------------------------------------------------------- environment

\* ------------------------------------------------------------------- state

VARIABLES
    port,           \* the global port: "null" or "port"
    reader,         \* the global reader (never assigned by the program)
    opened,         \* whether the SerialPort is open
    writerLock,     \* invocation holding port.writable's lock, 0 if none
    readerLock,     \* invocation holding port.readable's lock, 0 if none
    pollingActive,
    transactionId,
    startDisabled,  \* startButton.disabled
    stopDisabled,   \* stopButton.disabled
    slaveAddress,   \* text of the slave address field
    rows,           \* window.rows: regAddress, signedCheck, valueDisplay
    log,            \* children of debugWindow, oldest first
    loops,          \* the invocations of startPolling
    fin,            \* history: how the transaction that ended last ended
    calc            \* a function of the codec under evaluation, NoCalc in the page

vars == << port, reader, opened, writerLock, readerLock, pollingActive,
           transactionId, startDisabled, stopDisabled, slaveAddress, rows,
           log, loops, fin, calc >>

\* The variables of the page.
pageVars == << port, reader, opened, writerLock, readerLock, pollingActive,
               transactionId, startDisabled, stopDisabled, slaveAddress, rows,
               log, loops, fin >>

\* No function is under evaluation.
NoCalc == [fn |-> "none", stage |-> "none", arg |-> << >>, res |-> << >>]

LoopIds == 1..MaxLoops

\* Suspension points of an invocation inside a transaction.
ActivePcs == { "write", "turnaround", "read" }

\* valueDisplay before any value was written ("-").
NoValue == << >>

\* An invocation slot.  pc is the suspension point: "none" (no invocation),
\* "write", "turnaround", "read", "sleep", or "capped" (the invocation is cut
\* off because the transaction counter reached MaxTid).  stopSeen, stopDuring
\* and crcFail are history: stopPolling ran while the invocation was alive,
\* ran during its current transaction, and a candidate window of the
\* current await phase failed the CRC.
IdleLoop ==
    [pc |-> "none", slave |-> NaN, row |-> 0, tid |-> 0, frame |-> << >>,
     buffer |-> << >>, expired |-> FALSE, reads |-> 0, stopSeen |-> FALSE,
     stopDuring |-> FALSE, crcFail |-> FALSE]

\* fin.cause is "sendfail" (no writer, or the write rejected), "noreader",
\* "frame", "timeout" (the while condition failed with the time elapsed),
\* "truncated" (it failed before), "done" or "readerror".
NoFin == [tid |-> 0, row |-> 0, cause |-> "none", stopDuring |-> FALSE]

\* ------------------------------------------------------------------ logging

\* logTransaction(direction, data, tid, message): one entry appended.
logTransaction(lg, direction, data, tid, message) ==
    Append(lg, [dir |-> direction, tid |-> tid, data |-> data, msg |-> message])

\* An error entry that drops the transaction id.
handleErrorWithoutTid(lg, message, tid) ==
    Append(lg, [dir |-> "handleError", tid |-> 0, data |-> << >>, msg |-> message])

\* handleError(message, tid): one entry of class "error"; tid 0 is ''.
handleError(lg, message, tid) ==
    Append(lg, [dir |-> "handleError", tid |-> tid, data |-> << >>, msg |-> message])

\* The log holds an entry of this direction for transaction t.
Logged(direction, t) ==
    \E i \in 1..Len(log) : log[i].dir = direction /\ log[i].tid = t

\* updateUIState(state): the two button flags the handlers are guarded by.
StartDisabledIn(state) == state \in { "polling", "disconnected" }

StopDisabledIn(state) == state \in { "connected", "stopped", "disconnected" }

\* validateSlaveAddress(): the field parses to a number in 1..247.
validateSlaveAddress ==
    LET slave == parseInt(slaveAddress)
    IN ~(isNaN(slave) \/ slave[1] < 1 \/ slave[1] > 247)

\* ------------------------------------------------------ the poll loop's steps

\* The mutable state one step of invocation l works on.
Mach(l) ==
    [log |-> log, transactionId |-> transactionId, fin |-> fin,
     writerLock |-> writerLock, readerLock |-> readerLock, rows |-> rows,
     lp |-> loops[l]]

\* History: the transaction of m.lp has ended, and how.
EndTx(m, cause) ==
    [m EXCEPT !.fin = [tid |-> m.lp.tid, row |-> m.lp.row, cause |-> cause,
                       stopDuring |-> m.lp.stopDuring]]

\* port.writable.getWriter() returns a writer: the port is there, open, and
\* its writable stream is not locked.  Otherwise the expression throws.
CanGetWriter(m) == port = "port" /\ opened /\ m.writerLock = 0

\* port.readable.getReader() returns a reader; otherwise it throws.
CanGetReader(m) == port = "port" /\ opened /\ m.readerLock = 0

\* The invocation's record between transactions.
Between(lp, pc) == [IdleLoop EXCEPT !.pc = pc, !.stopSeen = lp.stopSeen]

\* After the for loop over the rows: sleep if still polling, else the while
\* loop ends and the invocation returns.
AfterRows(m, active) ==
    [m EXCEPT !.lp = IF active THEN Between(m.lp, "sleep") ELSE IdleLoop]

\* A loop that runs the row it has just run once more.
SameRowAgain(i) == i

\* The row the for loop takes after the transaction of row i returned.
RowAfter(i) == i + 1

\* A counter that stays at 1 once it got there.
SameTid(t) == IF t = 0 THEN 1 ELSE t

\* transactionId++
NextTid(t) == t + 1

\* A loop that also passes over register 3.
SkipsRegisterThree(reg) == isNaN(reg) \/ reg[1] = 3

\* A loop that passes over negative register addresses only.
SkipsNegativeRow(reg) == ~isNaN(reg) /\ reg[1] < 0

\* if (isNaN(reg)) { ...; continue; }
SkipsRow(reg) == isNaN(reg)

RECURSIVE RunRows(_, _, _, _)
\* The for loop of startPolling from row i on, up to the next suspension.
\* active is pollingActive, which no continuation of this step changes.
RunRows(m, l, i, active) ==
    IF i > NumRows \/ ~active THEN AfterRows(m, active)
    ELSE LET reg == parseInt(m.rows[i].regAddress)
         IN IF SkipsRow(reg) THEN RunRows(m, l, i + 1, active)
            ELSE IF m.transactionId >= MaxTid
            THEN [m EXCEPT !.lp = Between(m.lp, "capped")]
            ELSE LET tid == NextTid(m.transactionId)
                     frame == createModbusFrame(m.lp.slave, ToInt32(reg))
                     m1 == [m EXCEPT !.transactionId = tid,
                                     !.lp = [Between(m.lp, "write") EXCEPT
                                                !.slave = m.lp.slave, !.row = i,
                                                !.tid = tid, !.frame = frame]]
                 IN IF CanGetWriter(m)
                    THEN [m1 EXCEPT !.writerLock = l]
                    ELSE RunRows(
                           EndTx([m1 EXCEPT !.log = handleError(@, "Transaction failed", tid)],
                                 "sendfail"),
                           l, RowAfter(i), active)

\* The step's result becomes the next state.
Commit(m, l) ==
    \E r \in { m } :
        /\ log' = r.log
        /\ transactionId' = r.transactionId
        /\ fin' = r.fin
        /\ writerLock' = r.writerLock
        /\ readerLock' = r.readerLock
        /\ rows' = r.rows
        /\ loops' = [loops EXCEPT ![l] = r.lp]

\* A decoder that does not look at the byte count.
processValidResponseAnyCount(m, frame) ==
    LET rawValue == frame[4] * 256 + frame[5]
        isSigned == m.rows[m.lp.row].signedCheck
        value == IF isSigned /\ rawValue > 32767 THEN rawValue - 65536 ELSE rawValue
    IN [m EXCEPT !.rows[m.lp.row].valueDisplay = Num(value)]

\* A decoder whose sign threshold is one too high.
processValidResponseLateSign(m, frame) ==
    LET byteCount == frame[3]
        rawValue == frame[4] * 256 + frame[5]
        isSigned == m.rows[m.lp.row].signedCheck
        value == IF isSigned /\ rawValue > 32768 THEN rawValue - 65536 ELSE rawValue
    IN IF byteCount # 2
       THEN [m EXCEPT !.log = logTransaction(@, "INVALID", frame, m.lp.tid, "Bad byte count")]
       ELSE [m EXCEPT !.rows[m.lp.row].valueDisplay = Num(value)]

\* processValidResponse(frame, tid, reg, row)
processValidResponse(m, frame) ==
    LET byteCount == frame[3]
        rawValue == frame[4] * 256 + frame[5]
        isSigned == m.rows[m.lp.row].signedCheck
        value == IF isSigned /\ rawValue > 32767 THEN rawValue - 65536 ELSE rawValue
    IN IF byteCount # 2
       THEN [m EXCEPT !.log = logTransaction(@, "INVALID", frame, m.lp.tid, "Bad byte count")]
       ELSE [m EXCEPT !.rows[m.lp.row].valueDisplay = Num(value)]

\* handleTransaction's else branch: waitForResponse returned null.
NoResponse(m) ==
    [m EXCEPT !.log = logTransaction(@, "TIMEOUT", m.lp.frame, m.lp.tid, "No response")]

RECURSIVE InnerScan(_, _, _, _)
\* The inner while of waitForResponse: frames are taken off the buffer
\* until one validates or none is left.  got is << >> for null; bad tells
\* whether extractFrame passed over a window that failed validateFrame.
InnerScan(buf, lg, tid, bad) ==
    IF Len(buf) >= 7
    THEN LET frameInfo == extractFrame(buf)
         IN IF ~frameInfo.found
            THEN [buffer |-> buf, log |-> lg, got |-> << >>,
                  bad |-> bad \/ frameInfo.skipped > 0]
            ELSE IF validateFrame(frameInfo.frame)
                 THEN [buffer |-> frameInfo.remaining,
                       log |-> logTransaction(lg, "RECEIVED", frameInfo.frame, tid, ""),
                       got |-> frameInfo.frame,
                       bad |-> bad \/ frameInfo.skipped > 0]
                 ELSE InnerScan(frameInfo.remaining,
                                logTransaction(lg, "INVALID", frameInfo.frame, tid, "CRC mismatch"),
                                tid, bad \/ frameInfo.skipped > 0)
    ELSE [buffer |-> buf, log |-> lg, got |-> << >>, bad |-> bad]

\* A wait loop that goes on for as long as bytes are held.
WaitLoopCondWhileBytes(lp) == ~lp.expired \/ lp.buffer # << >>

\* A wait loop that also gives up once polling was stopped.
WaitLoopCondWhilePolling(lp) == ~lp.expired /\ pollingActive

\* The condition of waitForResponse's outer while:
\* Date.now() - startTime < RESPONSE_TIMEOUT.
WaitLoopCond(lp) == ~lp.expired

\* writer.write(frame) resolves: SENT is logged, the turnaround sleep begins.
WriteDone(l) ==
    /\ loops[l].pc = "write"
    /\ log' = logTransaction(log, "SENT", loops[l].frame, loops[l].tid, "")
    /\ loops' = [loops EXCEPT ![l].pc = "turnaround"]
    /\ UNCHANGED << calc, port, reader, opened, writerLock, readerLock, pollingActive,
                    transactionId, startDisabled, stopDisabled, slaveAddress,
                    rows, fin >>

\* writer.write(frame) rejects: the lock is released, handleTransaction
\* catches, and the for loop goes on.
WriteFail(l) ==
    /\ loops[l].pc = "write"
    /\ LET m == Mach(l)
           m1 == EndTx([m EXCEPT !.writerLock = 0,
                                 !.log = handleError(@, "Transaction failed", m.lp.tid)],
                       "sendfail")
       IN Commit(RunRows(m1, l, RowAfter(m.lp.row), pollingActive), l)
    /\ UNCHANGED << calc, port, reader, opened, pollingActive, startDisabled,
                    stopDisabled, slaveAddress >>

\* The turnaround sleep ends: the writer lock is released and
\* waitForResponse takes (or fails to take) the reader and issues a read.
TurnaroundDone(l) ==
    /\ loops[l].pc = "turnaround"
    /\ LET m == [Mach(l) EXCEPT !.writerLock = 0]
       IN IF CanGetReader(m)
          THEN Commit([m EXCEPT !.readerLock = l, !.lp.pc = "read",
                                !.lp.buffer = << >>, !.lp.expired = FALSE], l)
          ELSE LET m1 == [m EXCEPT !.log = logTransaction(@, "ERROR", << >>, m.lp.tid, "getReader failed")]
               IN \E ended \in { EndTx(NoResponse(m1), "noreader") } :
                      Commit(RunRows(ended, l, RowAfter(ended.lp.row), pollingActive), l)
    /\ UNCHANGED << calc, port, reader, opened, pollingActive, startDisabled,
                    stopDisabled, slaveAddress >>

\* RESPONSE_TIMEOUT milliseconds have passed since startTime.
TimeoutElapses(l) ==
    /\ loops[l].pc = "read"
    /\ ~loops[l].expired
    /\ loops' = [loops EXCEPT ![l].expired = TRUE]
    /\ UNCHANGED << calc, port, reader, opened, writerLock, readerLock, pollingActive,
                    transactionId, startDisabled, stopDisabled, slaveAddress,
                    rows, log, fin >>

\* reader.read() resolves with a chunk of bytes.
ReadChunk(l, value) ==
    /\ loops[l].pc = "read"
    /\ loops[l].reads < MaxReads
    /\ LET m == Mach(l)
           r == InnerScan(m.lp.buffer \o value, m.log, m.lp.tid, FALSE)
           m1 == [m EXCEPT !.log = r.log, !.lp.buffer = r.buffer,
                           !.lp.reads = @ + 1,
                           !.lp.crcFail = @ \/ r.bad]
           released == [m1 EXCEPT !.readerLock = 0]
       IN IF r.got # << >>
          THEN Commit(RunRows(EndTx(processValidResponse(released, r.got), "frame"),
                              l, RowAfter(m.lp.row), pollingActive), l)
          ELSE IF WaitLoopCond(m1.lp)
               THEN Commit(m1, l)
               ELSE Commit(RunRows(EndTx(NoResponse(released),
                                         IF m.lp.expired THEN "timeout" ELSE "truncated"),
                                   l, RowAfter(m.lp.row), pollingActive), l)
    /\ UNCHANGED << calc, port, reader, opened, pollingActive, startDisabled,
                    stopDisabled, slaveAddress >>

\* reader.read() resolves with done = true: the stream has closed.
ReadDone(l) ==
    /\ loops[l].pc = "read"
    /\ LET m == [Mach(l) EXCEPT !.readerLock = 0]
       IN Commit(RunRows(EndTx(NoResponse(m), "done"), l, RowAfter(m.lp.row),
                         pollingActive), l)
    /\ UNCHANGED << calc, port, reader, opened, pollingActive, startDisabled,
                    stopDisabled, slaveAddress >>

\* reader.read() rejects: waitForResponse's catch logs ERROR and returns null.
ReadError(l) ==
    /\ loops[l].pc = "read"
    /\ LET m == [Mach(l) EXCEPT !.readerLock = 0,
                                !.log = logTransaction(@, "ERROR", << >>, loops[l].tid, "read failed")]
       IN Commit(RunRows(EndTx(NoResponse(m), "readerror"), l, RowAfter(m.lp.row),
                         pollingActive), l)
    /\ UNCHANGED << calc, port, reader, opened, pollingActive, startDisabled,
                    stopDisabled, slaveAddress >>

\* sleep(1000) ends: the while condition is tested and a new cycle begins,
\* or the invocation returns.
SleepDone(l) ==
    /\ loops[l].pc = "sleep"
    /\ LET m == Mach(l)
       IN IF pollingActive
          THEN Commit(RunRows([m EXCEPT !.lp.slave = parseInt(slaveAddress)],
                              l, 1, TRUE), l)
          ELSE Commit([m EXCEPT !.lp = IdleLoop], l)
    /\ UNCHANGED << calc, port, reader, opened, pollingActive, startDisabled,
                    stopDisabled, slaveAddress >>

\* ------------------------------------------------------------ click handlers

\* The lowest free invocation slot.
FreeLoop == CHOOSE l \in LoopIds :
                /\ loops[l].pc = "none"
                /\ \A k \in LoopIds : loops[k].pc = "none" => l <= k

\* startPolling with an invalid slave address: handleError, return.
StartRejected ==
    /\ ~startDisabled
    /\ ~validateSlaveAddress
    /\ Len(log) < MaxNoTid
    /\ log' = handleError(log, "Invalid slave address (1-247)", 0)
    /\ UNCHANGED << calc, port, reader, opened, writerLock, readerLock, pollingActive,
                    transactionId, startDisabled, stopDisabled, slaveAddress,
                    rows, loops, fin >>

\* startPolling with a valid slave address: the flag is set and the first
\* cycle runs up to its first suspension.
StartAccepted ==
    /\ ~startDisabled
    /\ validateSlaveAddress
    /\ transactionId < MaxTid
    /\ \E l \in LoopIds : loops[l].pc = "none"
    /\ pollingActive' = TRUE
    /\ startDisabled' = StartDisabledIn("polling")
    /\ stopDisabled' = StopDisabledIn("polling")
    /\ LET l == FreeLoop
           m == [Mach(l) EXCEPT !.lp = [IdleLoop EXCEPT !.slave = parseInt(slaveAddress)]]
       IN Commit(RunRows(m, l, 1, TRUE), l)
    /\ UNCHANGED << calc, port, reader, opened, slaveAddress >>

startPolling == StartRejected \/ StartAccepted

\* stopPolling: the flag is cleared.  (History: every live invocation has
\* seen a stop, every transaction in progress was stopped during.)
stopPolling ==
    /\ ~stopDisabled
    /\ pollingActive' = FALSE
    /\ startDisabled' = StartDisabledIn("stopped")
    /\ stopDisabled' = StopDisabledIn("stopped")
    /\ loops' = [l \in LoopIds |->
                   IF loops[l].pc = "none" THEN loops[l]
                   ELSE [loops[l] EXCEPT !.stopSeen = TRUE,
                                         !.stopDuring = loops[l].pc \in ActivePcs]]
    /\ UNCHANGED << calc, port, reader, opened, writerLock, readerLock, transactionId,
                    slaveAddress, rows, log, fin >>

\* safeDisconnect: reader?.cancel() acts on the global reader only;
\* port.close() rejects while a stream of the port is locked, and the
\* rejection is ignored.
safeDisconnect ==
    /\ pollingActive' = FALSE
    /\ readerLock' = IF reader # "null" THEN 0 ELSE readerLock
    /\ opened' = IF opened /\ writerLock = 0 /\ readerLock' = 0 THEN FALSE ELSE opened
    /\ port' = "null"
    /\ reader' = "null"
    /\ startDisabled' = StartDisabledIn("disconnected")
    /\ stopDisabled' = StopDisabledIn("disconnected")
    /\ UNCHANGED << calc, writerLock, transactionId, slaveAddress, rows, log, loops, fin >>

\* handleConnect with no port: requestPort and open both succeed.
ConnectOk ==
    /\ port = "null"
    /\ ~opened
    /\ port' = "port"
    /\ opened' = TRUE
    /\ startDisabled' = StartDisabledIn("connected")
    /\ stopDisabled' = StopDisabledIn("connected")
    /\ UNCHANGED << calc, reader, writerLock, readerLock, pollingActive, transactionId,
                    slaveAddress, rows, log, loops, fin >>

\* handleConnect with no port: requestPort rejects (the port stays null) or
\* port.open rejects (the port is kept); handleError either way.
ConnectFail(gotPort) ==
    /\ port = "null"
    /\ Len(log) < MaxNoTid
    /\ port' = IF gotPort THEN "port" ELSE "null"
    /\ log' = handleError(log, "Connection error", 0)
    /\ UNCHANGED << calc, reader, opened, writerLock, readerLock, pollingActive,
                    transactionId, startDisabled, stopDisabled, slaveAddress,
                    rows, loops, fin >>

handleConnect ==
    \/ ConnectOk
    \/ \E gotPort \in BOOLEAN : ConnectFail(gotPort)
    \/ (port # "null" /\ safeDisconnect)

\* The user types another slave address.
EditSlaveAddress(text) ==
    /\ text # slaveAddress
    /\ slaveAddress' = text
    /\ UNCHANGED << calc, port, reader, opened, writerLock, readerLock, pollingActive,
                    transactionId, startDisabled, stopDisabled, rows, log,
                    loops, fin >>

\* ------------------------------------------------------------ specification

\* The page after load: no port, nothing polled, the buttons as
\* updateUIState('disconnected') leaves them.
PageLoaded ==
    /\ port = "null"
    /\ reader = "null"
    /\ opened = FALSE
    /\ writerLock = 0
    /\ readerLock = 0
    /\ pollingActive = FALSE
    /\ transactionId = 0
    /\ startDisabled = StartDisabledIn("disconnected")
    /\ stopDisabled = StopDisabledIn("disconnected")
    /\ slaveAddress = << "1" >>
    /\ rows = ConfiguredRows
    /\ log = << >>
    /\ loops = [l \in LoopIds |-> IdleLoop]
    /\ fin = NoFin

Init == PageLoaded /\ calc = NoCalc

LoopStep(l) ==
    \/ WriteDone(l)
    \/ WriteFail(l)
    \/ TurnaroundDone(l)
    \/ TimeoutElapses(l)
    \/ \E value \in Chunks : ReadChunk(l, value)
    \/ ReadDone(l)
    \/ ReadError(l)
    \/ SleepDone(l)

Next ==
    \/ handleConnect
    \/ startPolling
    \/ stopPolling
    \/ \E text \in SlaveTexts : EditSlaveAddress(text)
    \/ \E l \in LoopIds : LoopStep(l)

Spec == Init /\ [][Next]_vars

\* A transport that accepts writes and never delivers anything: reads stay
\* pending.  Every continuation of an invocation that is ready is run.
SilentLoopStep(l) ==
    \/ WriteDone(l)
    \/ TurnaroundDone(l)
    \/ TimeoutElapses(l)
    \/ SleepDone(l)

SilentNext ==
    \/ handleConnect
    \/ startPolling
    \/ stopPolling
    \/ \E text \in SlaveTexts : EditSlaveAddress(text)
    \/ \E l \in LoopIds : SilentLoopStep(l)

SilentSpec ==
    Init /\ [][SilentNext]_vars /\ \A l \in LoopIds : WF_vars(SilentLoopStep(l))

\* ------------------------------------------------ a slave that may be late

\* The request written by transaction t.
RequestOf(t) ==
    log[CHOOSE k \in 1..Len(log) : log[k].dir = "SENT" /\ log[k].tid = t].data

\* The reply of a slave whose register r holds the value r: the addressed
\* slave, function 3, two bytes, the register address as the value.
ReplyTo(request) == RespFrame(request[1], 2, request[3], request[4])

\* How often a frame was written / was received so far.
TimesSent(request) ==
    Cardinality({ k \in 1..Len(log) : log[k].dir = "SENT" /\ log[k].data = request })

TimesReceived(frame) ==
    Cardinality({ k \in 1..Len(log) : log[k].dir = "RECEIVED" /\ log[k].data = frame })

\* The replies of the slave to the requests for the configured registers.
Replies ==
    { ReplyTo(createModbusFrame(Num(1), r)) : r \in 0..9 }

\* value is the slave's reply to the request of a transaction, the pending
\* one or an earlier one whose reply is still on its way; the slave answers
\* a request once.
ReplyDue(l, value) ==
    \E t \in 1..loops[l].tid :
        /\ Logged("SENT", t)
        /\ value = ReplyTo(RequestOf(t))
        /\ TimesReceived(value) < TimesSent(RequestOf(t))

\* What a read can carry: a reply of the slave, or bytes damaged on the line.
Arrivals == Replies \cup { BadCrcResp }

\* reader.read() resolves with a reply that is due or with damaged bytes.
ReadArrival(l, value) ==
    /\ loops[l].pc = "read"
    /\ value = BadCrcResp \/ ReplyDue(l, value)
    /\ ReadChunk(l, value)

LateLoopStep(l) ==
    \/ WriteDone(l)
    \/ TurnaroundDone(l)
    \/ TimeoutElapses(l)
    \/ ReadError(l)
    \/ \E value \in Arrivals : ReadArrival(l, value)
    \/ SleepDone(l)

LateNext ==
    \/ ConnectOk
    \/ StartAccepted
    \/ \E l \in LoopIds : LateLoopStep(l)

LateSpec == Init /\ [][LateNext]_vars

\* ------------------------------------------------- the codec's functions

\* Inputs the frame functions are evaluated on.
SlaveSamples == { 1, 17, 247 }

RegSamples == { 0, 1, 255, 256, 4660, 65535, 70000 }

JunkSamples == { << >>, << 0 >>, << 1, 3 >>, << 255, 255, 255, 255, 255, 255, 255 >> }

RequestInputs ==
    { [fn |-> "request", stage |-> "input",
       arg |-> [slave |-> s, reg |-> r, prefix |-> p, suffix |-> x],
       res |-> << >>] :
      s \in SlaveSamples, r \in RegSamples, p \in JunkSamples, x \in JunkSamples }

\* Payloads, byte counts and signedness processValidResponse is evaluated on.
PayloadSamples ==
    { << 0, 0 >>, << 0, 1 >>, << 1, 0 >>, << 18, 52 >>, << 127, 255 >>,
      << 128, 0 >>, << 128, 1 >>, << 255, 254 >>, << 255, 255 >> }

ByteCountSamples == { 0, 2, 4 }

DecodeInputs ==
    { [fn |-> "decode", stage |-> "input",
       arg |-> [hi |-> p[1], lo |-> p[2], byteCount |-> c, signed |-> b],
       res |-> << >>] :
      p \in PayloadSamples, c \in ByteCountSamples, b \in BOOLEAN }

\* Receive buffers extractFrame is evaluated on: too short, noise, replies
\* with junk around them, two replies, and buffers holding a request frame.
BufferSamples ==
    { << >>,
      << 1, 3, 2 >>,
      SubSeq(GoodResp, 1, 6),
      BadCrcResp,
      GoodResp,
      << 0 >> \o GoodResp,
      << 9, 9 >> \o GoodResp \o << 7 >>,
      GoodResp \o BadCountResp,
      BadCrcResp \o BadCountResp \o << 1, 2, 3 >>,
      SubSeq(GoodResp, 1, 4) \o GoodResp \o GoodResp,
      createModbusFrame(Num(1), 1),
      createModbusFrame(Num(1), 1) \o GoodResp }

ExtractInputs ==
    { [fn |-> "extract", stage |-> "input", arg |-> [buffer |-> b], res |-> << >>] :
      b \in BufferSamples }

CodecInit == PageLoaded /\ calc \in RequestInputs \cup DecodeInputs \cup ExtractInputs

\* frame = createModbusFrame(slave, reg)
Encode ==
    /\ calc.fn = "request"
    /\ calc.stage = "input"
    /\ calc' = [calc EXCEPT !.stage = "encoded",
                            !.res = [frame |-> createModbusFrame(Num(calc.arg.slave),
                                                                 calc.arg.reg)]]
    /\ UNCHANGED pageVars

\* extractFrame(prefix ++ frame ++ suffix)
Extract ==
    /\ calc.fn = "request"
    /\ calc.stage = "encoded"
    /\ calc' = [calc EXCEPT !.stage = "extracted",
                            !.res = [frame |-> calc.res.frame,
                                     info |-> extractFrame(calc.arg.prefix \o calc.res.frame
                                                           \o calc.arg.suffix)]]
    /\ UNCHANGED pageVars

\* validateFrame(frame)
Validate ==
    /\ calc.fn = "request"
    /\ calc.stage = "encoded"
    /\ calc' = [calc EXCEPT !.stage = "validated",
                            !.res = [frame |-> calc.res.frame,
                                     valid |-> validateFrame(calc.res.frame)]]
    /\ UNCHANGED pageVars

\* processValidResponse(frame, tid, reg, row) for transaction 1 on row 1,
\* whose display shows 7 and whose signed box is as the input says.
Decode ==
    /\ calc.fn = "decode"
    /\ calc.stage = "input"
    /\ LET m == [log |-> << >>,
                 rows |-> [ConfiguredRows EXCEPT ![1].signedCheck = calc.arg.signed,
                                                 ![1].valueDisplay = Num(7)],
                 lp |-> [IdleLoop EXCEPT !.row = 1, !.tid = 1]]
           frame == RespFrame(1, calc.arg.byteCount, calc.arg.hi, calc.arg.lo)
           r == processValidResponse(m, frame)
       IN calc' = [calc EXCEPT !.stage = "decoded",
                               !.res = [value |-> r.rows[1].valueDisplay,
                                        log |-> r.log]]
    /\ UNCHANGED pageVars

\* extractFrame(buffer)
ScanBuffer ==
    /\ calc.fn = "extract"
    /\ calc.stage = "input"
    /\ calc' = [calc EXCEPT !.stage = "scanned",
                            !.res = extractFrame(calc.arg.buffer)]
    /\ UNCHANGED pageVars

CodecNext ==
    \/ ScanBuffer
    \/ Decode
    \/ Encode
    \/ Extract
    \/ Validate

CodecSpec == CodecInit /\ [][CodecNext]_vars

\* ------------------------------------------------------------------ claims

\* The invocations that are inside a transaction.
ActiveLoops == { l \in LoopIds : loops[l].pc \in ActivePcs }

\* C1: at most one transaction is active at any instant: no second
\* transaction is sending or awaiting while another has not ended.
C1_AtMostOneActive == Cardinality(ActiveLoops) <= 1

\* C2: with a transport that accepts writes and never delivers a byte, every
\* transaction whose request was sent is eventually logged TIMEOUT.
C2_SilentTransportTimesOut ==
    \A t \in 1..MaxTid : Logged("SENT", t) ~> Logged("TIMEOUT", t)

\* C3: an invocation of the poll loop that was running when stop was invoked
\* creates no transaction afterwards: no step of such an invocation raises
\* the transaction counter.
C3_NoTransactionAfterStop ==
    [][\A l \in LoopIds :
          (loops[l].stopSeen /\ loops'[l] # loops[l]) =>
              transactionId' = transactionId]_vars

\* The frame logged RECEIVED for transaction t.
ReceivedFrame(t) ==
    log[CHOOSE i \in 1..Len(log) : log[i].dir = "RECEIVED" /\ log[i].tid = t].data

\* The value processValidResponse displays for a two-byte reply.
Decoded(frame, isSigned) ==
    LET raw == frame[4] * 256 + frame[5]
    IN IF isSigned /\ raw >= 32768 THEN raw - 65536 ELSE raw

\* C4: a transaction during which stop was invoked is not truncated: it ends
\* by a frame, by its own timeout or by a transport failure, and its outcome
\* is logged and delivered as without the stop (RECEIVED and the row's value
\* for a two-byte reply, TIMEOUT after the timeout).
C4_StopNeverTruncates ==
    fin.stopDuring =>
        /\ fin.cause \in { "sendfail", "noreader", "frame", "timeout", "done", "readerror" }
        /\ fin.cause = "frame" =>
             /\ Logged("RECEIVED", fin.tid)
             /\ ReceivedFrame(fin.tid)[3] = 2 =>
                  rows[fin.row].valueDisplay =
                      Num(Decoded(ReceivedFrame(fin.tid), rows[fin.row].signedCheck))
        /\ fin.cause = "timeout" => Logged("TIMEOUT", fin.tid)

\* Stop was invoked during a transaction that then received its reply and
\* displayed the value.
C4_Witness ==
    /\ fin.stopDuring
    /\ fin.cause = "frame"
    /\ rows[fin.row].valueDisplay # NoValue

\* C5: a transaction whose read threw is logged ERROR and not TIMEOUT.
C5_ReadErrorNotTimeout ==
    fin.cause = "readerror" =>
        Logged("ERROR", fin.tid) /\ ~Logged("TIMEOUT", fin.tid)

\* C6: a transaction whose read reported end-of-stream before a frame was
\* recovered is logged ERROR and not TIMEOUT.
C6_StreamEndIsError ==
    fin.cause = "done" =>
        Logged("ERROR", fin.tid) /\ ~Logged("TIMEOUT", fin.tid)

\* C7: per transaction id one SENT precedes every RECEIVED, TIMEOUT, INVALID
\* and ERROR entry of that id, SENT, RECEIVED and TIMEOUT occur at most once
\* per id, and the entries of a transaction precede those of every
\* transaction with a larger id.
C7_LogInOrder ==
    /\ \A i \in 1..Len(log) :
         log[i].dir \in { "RECEIVED", "TIMEOUT", "INVALID", "ERROR" } =>
             \E j \in 1..(i - 1) : log[j].dir = "SENT" /\ log[j].tid = log[i].tid
    /\ \A i, j \in 1..Len(log) :
         (/\ i < j
          /\ log[i].tid = log[j].tid
          /\ log[i].dir = log[j].dir) => log[i].dir \notin { "SENT", "RECEIVED", "TIMEOUT" }
    /\ \A i, j \in 1..Len(log) :
         (i < j /\ log[i].tid > 0 /\ log[j].tid > 0) => log[i].tid <= log[j].tid

\* C8: when a candidate window of the receive buffer (7 bytes or more held)
\* failed the CRC during the await phase, an INVALID entry 'CRC mismatch'
\* with the transaction's id is in the log.
C8_CrcMismatchLogged ==
    \A l \in LoopIds :
        (loops[l].pc = "read" /\ loops[l].crcFail) =>
            \E i \in 1..Len(log) :
                /\ log[i].dir = "INVALID"
                /\ log[i].tid = loops[l].tid
                /\ log[i].msg = "CRC mismatch"

\* C9: a disconnect issued while a read is outstanding ends that read and
\* releases the transport: afterwards no lock is held and the port is closed.
C9_DisconnectReleasesTransport ==
    [][(port # "null" /\ port' = "null" /\ \E l \in LoopIds : loops[l].pc = "read")
         => (/\ readerLock' = 0
             /\ writerLock' = 0
             /\ ~opened'
             /\ \A l \in LoopIds : loops'[l].pc # "read")]_vars

\* C10: every transaction is created with a numeric slave address in 1..247.
C10_SlaveAddressValid ==
    \A l \in ActiveLoops :
        ~isNaN(loops[l].slave) /\ loops[l].slave[1] \in 1..247

\* The register text of row i is a run of digits / holds no digit at all.
ValidEntry(i) ==
    /\ rows[i].regAddress # << >>
    /\ \A k \in 1..Len(rows[i].regAddress) : IsDigit(rows[i].regAddress[k])

NonNumericEntry(i) ==
    \A k \in 1..Len(rows[i].regAddress) : ~IsDigit(rows[i].regAddress[k])

\* Row j is the next valid entry after row i, with only non-numeric entries
\* in between.
NextValidEntry(i, j) ==
    /\ i < j
    /\ ValidEntry(j)
    /\ \A k \in (i + 1)..(j - 1) : NonNumericEntry(k)

\* C11: no transaction is ever run for a non-numeric entry, and when an
\* invocation that is still polling ends the transaction of row i, the very
\* next transaction it creates is the one of the next valid row j: the
\* counter advances by one, nothing is logged for the rows in between, and
\* the transaction of row j is sent (or its send failure is logged).
C11_NonNumericRowSkipped ==
    [][/\ \A l \in LoopIds : loops'[l].pc \in ActivePcs => ValidEntry(loops'[l].row)
       /\ fin'.tid > 0 => ValidEntry(fin'.row)
       /\ \A l \in LoopIds : \A i, j \in 1..NumRows :
            (/\ NextValidEntry(i, j)
             /\ loops[l].pc \in ActivePcs
             /\ loops[l].row = i
             /\ loops'[l].tid # loops[l].tid
             /\ pollingActive
             /\ transactionId < MaxTid)
            => \/ /\ loops'[l].pc = "write"
                  /\ loops'[l].row = j
                  /\ loops'[l].tid = transactionId + 1
                  /\ transactionId' = transactionId + 1
                  /\ \A n \in (Len(log) + 1)..Len(log') : log'[n].tid = loops[l].tid
               \/ /\ fin'.row >= j
                  /\ \E n \in (Len(log) + 1)..Len(log') :
                        /\ log'[n].dir = "handleError"
                        /\ log'[n].tid = transactionId + 1
                  /\ \A n \in (Len(log) + 1)..Len(log') :
                        log'[n].tid = loops[l].tid \/ log'[n].tid > transactionId]_vars

\* The transaction of row 1 ended with a reply and the same invocation is
\* sending the transaction of row 3, row 2 being non-numeric.
C11_Witness ==
    /\ NonNumericEntry(2)
    /\ fin.row = 1
    /\ fin.cause = "frame"
    /\ \E l \in LoopIds :
          /\ loops[l].pc = "write"
          /\ loops[l].row = 3
          /\ loops[l].tid = fin.tid + 1

\* C12: when writer.write rejects, the step that handles it logs a failure
\* entry with the transaction's id, the log holds no SENT and no entry of an
\* await phase (RECEIVED, TIMEOUT, INVALID, ERROR) for that id, the
\* transaction has ended, and the loop goes on: while polling it takes the
\* writer again for the next valid row, else it sleeps or returns, so the
\* writer lock was released.
C12_WriteFailureCaught ==
    [][\A l \in LoopIds :
         (loops[l].pc = "write" /\ loops'[l].tid # loops[l].tid) =>
            /\ \E n \in (Len(log) + 1)..Len(log') :
                  /\ log'[n].dir = "handleError"
                  /\ log'[n].tid = loops[l].tid
                  /\ log'[n].msg = "Transaction failed"
            /\ \A n \in 1..Len(log') :
                  log'[n].tid = loops[l].tid => log'[n].dir = "handleError"
            /\ fin'.tid = loops[l].tid
            /\ fin'.cause = "sendfail"
            /\ \A j \in 1..NumRows :
                  (/\ NextValidEntry(loops[l].row, j)
                   /\ pollingActive
                   /\ transactionId < MaxTid)
                  => /\ loops'[l].pc = "write"
                     /\ loops'[l].row = j
                     /\ writerLock' = l
            /\ loops'[l].pc # "write" =>
                  /\ writerLock' = 0
                  /\ loops'[l].pc \in { "sleep", "none", "capped" }]_vars

\* The only invocation had the write of row 1 rejected and is now writing
\* the request of row 3.
C12_Witness ==
    /\ fin.cause = "sendfail"
    /\ fin.row = 1
    /\ \E n \in 1..Len(log) : log[n].dir = "handleError" /\ log[n].tid = fin.tid
    /\ \E l \in LoopIds :
          /\ loops[l].pc = "write"
          /\ loops[l].row = 3
          /\ loops[l].tid = fin.tid + 1
          /\ writerLock = l
          /\ \A k \in LoopIds \ { l } : loops[k].pc = "none"

\* Row j is the first valid entry / row i is the last one.
FirstValidEntry(j) ==
    ValidEntry(j) /\ \A k \in 1..(j - 1) : NonNumericEntry(k)

LastValidEntry(i) ==
    ValidEntry(i) /\ \A k \in (i + 1)..NumRows : NonNumericEntry(k)

\* In this step invocation l creates the transaction of row j: it is now
\* writing its request, or the send failed at once and that is logged.
BeginsRow(l, j) ==
    \/ /\ loops'[l].pc = "write"
       /\ loops'[l].row = j
       /\ loops'[l].tid = transactionId + 1
    \/ /\ fin'.row >= j
       /\ \E n \in (Len(log) + 1)..Len(log') :
             log'[n].dir = "handleError" /\ log'[n].tid = transactionId + 1

\* In this step invocation l comes back from the transaction it was in.
EndsTransaction(l) ==
    loops[l].pc \in ActivePcs /\ loops'[l].tid # loops[l].tid

\* C13: in a cycle of an invocation that is polling, the first transaction
\* is the one of the first valid row; a transaction has its terminal entry
\* (RECEIVED, TIMEOUT or the send failure) in the log before the invocation
\* creates another one; the one created next is that of the next valid row;
\* and after the last valid row no transaction is created and the
\* invocation sleeps: one transaction per valid row, in row order.
C13_OneTransactionPerRowInOrder ==
    [][\A l \in LoopIds :
         /\ (loops[l].pc \in { "none", "sleep" } /\ loops'[l].pc = "write") =>
               \E j \in 1..NumRows : FirstValidEntry(j) /\ BeginsRow(l, j)
         /\ EndsTransaction(l) =>
               /\ \E n \in 1..Len(log') :
                     /\ log'[n].tid = loops[l].tid
                     /\ log'[n].dir \in { "RECEIVED", "TIMEOUT", "handleError" }
                     /\ \A k \in 1..(n - 1) :
                           log'[k].tid > 0 => log'[k].tid # loops'[l].tid
               /\ loops'[l].pc \in ActivePcs => loops'[l].row > loops[l].row
         /\ (EndsTransaction(l) /\ pollingActive /\ transactionId < MaxTid) =>
               \A j \in 1..NumRows :
                   NextValidEntry(loops[l].row, j) => BeginsRow(l, j)
         /\ (EndsTransaction(l) /\ pollingActive /\ LastValidEntry(loops[l].row)) =>
               /\ transactionId' = transactionId
               /\ loops'[l].pc = "sleep"]_vars

\* A whole cycle ran: both valid rows got their transaction and their
\* reply, in order, and the invocation sleeps before the next cycle.
C13_Witness ==
    /\ pollingActive
    /\ transactionId = 2
    /\ fin.tid = 2
    /\ fin.row = 3
    /\ Logged("RECEIVED", 1)
    /\ Logged("RECEIVED", 2)
    /\ \E l \in LoopIds : loops[l].pc = "sleep"

\* In this step invocation k calls reader.read(): the first read after the
\* turnaround sleep, or the next read of its await phase.
IssuesRead(k) ==
    /\ loops'[k].pc = "read"
    /\ \/ loops[k].pc = "turnaround"
       \/ loops[k].pc = "read" /\ loops'[k].reads > loops[k].reads

\* C14: a transaction's first read comes after its write completed, SENT
\* was logged and the turnaround sleep ended, and no read is issued on the
\* transport while a transaction is between its write-complete and the end
\* of its turnaround sleep.
C14_NoReadBeforeTurnaround ==
    [][\A k \in LoopIds :
         /\ (loops'[k].pc = "read" /\ loops[k].pc # "read") =>
               /\ loops[k].pc = "turnaround"
               /\ loops'[k].tid = loops[k].tid
               /\ Logged("SENT", loops[k].tid)
         /\ IssuesRead(k) =>
               \A l \in LoopIds \ { k } : loops[l].pc # "turnaround"]_vars

\* C15: the counter never decreases; a transaction an invocation creates
\* gets an id that is at least 1, larger than every id given before and
\* equal to the counter afterwards; two invocations never hold the same id;
\* and whatever is logged or ended in a step carries the id of a
\* transaction in progress or of one created in that step.
C15_TransactionIdsIncrease ==
    [][/\ transactionId' >= transactionId
       /\ \A l \in LoopIds :
            (loops'[l].tid # loops[l].tid /\ loops'[l].tid # 0) =>
               /\ loops'[l].tid >= 1
               /\ loops'[l].tid > transactionId
               /\ loops'[l].tid = transactionId'
       /\ \A l, k \in LoopIds :
            (l # k /\ loops'[l].tid # 0) => loops'[l].tid # loops'[k].tid
       /\ fin'.tid # fin.tid =>
            /\ fin'.tid >= 1
            /\ fin'.tid <= transactionId'
            /\ \/ fin'.tid > transactionId
               \/ \E l \in LoopIds : loops[l].tid = fin'.tid
       /\ \A n \in (Len(log) + 1)..Len(log') :
            \/ log'[n].tid = 0
            \/ \E l \in LoopIds : loops[l].tid = log'[n].tid
            \/ log'[n].tid > transactionId /\ log'[n].tid <= transactionId']_vars

\* Row 1 is polled again in the next cycle of the same invocation, under a
\* new id.
C15_Witness ==
    \E l \in LoopIds :
        /\ loops[l].pc = "write"
        /\ loops[l].row = 1
        /\ loops[l].tid = 3
        /\ Logged("SENT", 1)
        /\ Logged("SENT", 2)
        /\ ~loops[l].stopSeen
        /\ \A k \in LoopIds \ { l } : loops[k].pc = "none"

\* C16: extractFrame applied to prefix ++ createModbusFrame(slave, reg) ++
\* suffix finds a frame, and that frame is the 8 bytes createModbusFrame
\* produced.
C16_ExtractReturnsRequest ==
    (calc.fn = "request" /\ calc.stage = "extracted") =>
        /\ calc.res.info.found
        /\ calc.res.info.frame = calc.res.frame

RECURSIVE ModbusCrcBits(_, _, _)
\* The Modbus CRC-16 as a bit-serial division: the n low bits of byte are
\* fed in, least significant first, into the reflected register with
\* polynomial 0xA001.
ModbusCrcBits(crc, byte, n) ==
    IF n = 0 THEN crc
    ELSE LET sh == crc \div 2
         IN ModbusCrcBits(IF crc % 2 # byte % 2 THEN BitXor(sh, 40961) ELSE sh,
                          byte \div 2, n - 1)

RECURSIVE ModbusCrc16(_, _)
\* The register after the bytes of data, starting from crc (0xFFFF for a
\* whole message); no final XOR.
ModbusCrc16(crc, data) ==
    IF data = << >> \/ crc < 0 THEN crc
    ELSE ModbusCrc16(ModbusCrcBits(crc, Head(data), 8), Tail(data))

\* C17: createModbusFrame(slave, reg) is the 8 bytes slave, 0x03, the high
\* and low byte of the register cut to 16 bits, 0x00, 0x01, and the Modbus
\* CRC-16 of these six bytes, low byte first; validateFrame accepts it.
C17_RequestFrameLayout ==
    (calc.fn = "request" /\ calc.stage # "input") =>
        LET f == calc.res.frame
            crc == ModbusCrc16(65535, SubSeq(f, 1, 6))
        IN /\ Len(f) = 8
           /\ f[1] = calc.arg.slave
           /\ f[2] = 3
           /\ f[3] = (calc.arg.reg % 65536) \div 256
           /\ f[4] = calc.arg.reg % 256
           /\ f[5] = 0
           /\ f[6] = 1
           /\ f[7] = crc % 256
           /\ f[8] = crc \div 256
           /\ calc.stage = "validated" => calc.res.valid

\* The request for register 1 of slave 1 is 01 03 00 01 00 01 D5 CA and
\* validateFrame accepted it.
C17_Witness ==
    /\ calc.fn = "request"
    /\ calc.stage = "validated"
    /\ calc.arg.slave = 1
    /\ calc.arg.reg = 1
    /\ calc.res.frame = << 1, 3, 0, 1, 0, 1, 213, 202 >>
    /\ calc.res.valid

\* C18: for a frame with byte count 2 the value delivered to the row is
\* 256 * hi + lo, and for a signed row every raw value from 32768 on is
\* delivered as raw - 65536.
C18_DecodedValue ==
    (calc.fn = "decode" /\ calc.stage = "decoded" /\ calc.arg.byteCount = 2) =>
        LET raw == 256 * calc.arg.hi + calc.arg.lo
        IN /\ raw \in 0..65535
           /\ (~calc.arg.signed \/ raw <= 32767) => calc.res.value = << raw >>
           /\ (calc.arg.signed /\ raw >= 32768) => calc.res.value = << raw - 65536 >>
           /\ calc.res.log = << >>

\* 0x8000 was decoded for a signed row and gave -32768.
C18_Witness ==
    /\ calc.fn = "decode"
    /\ calc.stage = "decoded"
    /\ calc.arg.byteCount = 2
    /\ calc.arg.hi = 128
    /\ calc.arg.lo = 0
    /\ calc.arg.signed
    /\ calc.res.value = << 0 - 32768 >>

\* C19: when a transaction receives a CRC-valid frame whose byte count is
\* not 2, the same step logs INVALID 'Bad byte count' with the transaction's
\* id, leaves the row's displayed value as it was and ends the transaction;
\* and a transaction with such an entry has no TIMEOUT and no ERROR entry.
C19_BadByteCount ==
    [][/\ \A l \in LoopIds : \A n \in (Len(log) + 1)..Len(log') :
            (/\ log'[n].dir = "RECEIVED"
             /\ log'[n].tid = loops[l].tid
             /\ log'[n].data[3] # 2)
            => /\ validateFrame(log'[n].data)
               /\ n < Len(log')
               /\ log'[n + 1].dir = "INVALID"
               /\ log'[n + 1].msg = "Bad byte count"
               /\ log'[n + 1].tid = loops[l].tid
               /\ log'[n + 1].data = log'[n].data
               /\ rows'[loops[l].row].valueDisplay = rows[loops[l].row].valueDisplay
               /\ loops'[l].tid # loops[l].tid
       /\ \A n, k \in 1..Len(log') :
            (/\ log'[n].dir = "INVALID"
             /\ log'[n].msg = "Bad byte count"
             /\ log'[k].tid = log'[n].tid)
            => log'[k].dir \notin { "TIMEOUT", "ERROR" }]_vars

\* A row that shows a value from an earlier transaction got a valid frame
\* with a bad byte count: INVALID is logged, the value is still shown.
C19_Witness ==
    /\ fin.cause = "frame"
    /\ rows[fin.row].valueDisplay # NoValue
    /\ \E n \in 1..Len(log) :
          /\ log[n].dir = "INVALID"
          /\ log[n].msg = "Bad byte count"
          /\ log[n].tid = fin.tid

\* C20: the timeout is not put off by received bytes: once the response
\* timeout has elapsed, an await phase stays as it is until its read
\* completes, and the step in which the read completes ends the transaction
\* and, when no frame was recovered, logs TIMEOUT for it.
C20_NoiseDoesNotExtendWait ==
    [][\A l \in LoopIds :
         (loops[l].pc = "read" /\ loops[l].expired) =>
            /\ (loops'[l].pc = "read" /\ loops'[l].tid = loops[l].tid) =>
                  /\ loops'[l].expired
                  /\ loops'[l].reads = loops[l].reads
                  /\ loops'[l].buffer = loops[l].buffer
            /\ (/\ EndsTransaction(l)
                /\ \A n \in 1..Len(log') :
                      ~(log'[n].dir = "RECEIVED" /\ log'[n].tid = loops[l].tid))
               => \E n \in (Len(log) + 1)..Len(log') :
                      /\ log'[n].dir = "TIMEOUT"
                      /\ log'[n].tid = loops[l].tid
                      /\ log'[n].data = loops[l].frame]_vars

\* Bytes that failed the CRC were read after the timeout had elapsed, and
\* the transaction ended with TIMEOUT.
C20_Witness ==
    /\ fin.cause = "timeout"
    /\ Logged("TIMEOUT", fin.tid)
    /\ ~Logged("RECEIVED", fin.tid)

\* C21: a transaction's request is written at most once (one SENT per id,
\* and a transaction past its write never writes again), and the request
\* an invocation writes after a transaction of its own returned belongs to a
\* new transaction with a larger id for a later row of the cycle; the row
\* is only polled again by a cycle begun after the sleep.
C21_NoRetry ==
    [][/\ \A n, k \in 1..Len(log') :
            (/\ log'[n].dir = "SENT"
             /\ log'[k].dir = "SENT"
             /\ log'[n].tid = log'[k].tid) => n = k
       /\ \A l \in LoopIds :
            /\ (loops[l].pc \in { "turnaround", "read" } /\ loops'[l].pc = "write") =>
                  loops'[l].tid # loops[l].tid
            /\ (EndsTransaction(l) /\ loops'[l].pc = "write") =>
                  /\ loops'[l].tid > loops[l].tid
                  /\ loops'[l].tid > transactionId
                  /\ loops'[l].row > loops[l].row
                  /\ rows[loops'[l].row].regAddress # rows[loops[l].row].regAddress
            /\ (loops'[l].pc = "write" /\ loops'[l].tid # loops[l].tid
                /\ loops'[l].row <= loops[l].row) =>
                  loops[l].pc = "sleep"]_vars

\* The transaction of row 1 ended without a frame after its request was
\* sent once, and the invocation is writing the request of row 3.
C21_Witness ==
    /\ fin.cause \in { "timeout", "done", "readerror" }
    /\ fin.row = 1
    /\ Logged("SENT", fin.tid)
    /\ Logged("TIMEOUT", fin.tid)
    /\ \E l \in LoopIds :
          /\ loops[l].pc = "write"
          /\ loops[l].row = 3
          /\ loops[l].tid = fin.tid + 1
          /\ \A k \in LoopIds \ { l } : loops[k].pc = "none"

\* The byte ranges <<i, j>> of buffer that meet the minimum length and pass
\* the CRC verification.
ValidRanges(buffer) ==
    { r \in (1..Len(buffer)) \X (1..Len(buffer)) :
        r[1] <= r[2] /\ validateFrame(SubSeq(buffer, r[1], r[2])) }

\* C22: extractFrame(buffer) returns none exactly when the buffer is shorter
\* than 7 bytes or holds no range that meets the minimum length and passes
\* the CRC; otherwise its frame is such a range starting earliest, and its
\* remaining buffer is all that follows the range.
C22_ExtractFirstValidRange ==
    (calc.fn = "extract" /\ calc.stage = "scanned") =>
        LET buffer == calc.arg.buffer
            ranges == ValidRanges(buffer)
        IN /\ ~calc.res.found <=> (Len(buffer) < 7 \/ ranges = { })
           /\ calc.res.found =>
                \E r \in ranges :
                    /\ \A q \in ranges : r[1] <= q[1]
                    /\ calc.res.frame = SubSeq(buffer, r[1], r[2])
                    /\ calc.res.remaining = SubSeq(buffer, r[2] + 1, Len(buffer))

\* C23: a frame logged RECEIVED for a transaction is the slave's reply to
\* that transaction's own request, and the value the transaction that ended
\* with a frame put on its row is the value of that reply.
C23_ReplyBelongsToTransaction ==
    /\ \A n \in 1..Len(log) :
          log[n].dir = "RECEIVED" =>
              /\ Logged("SENT", log[n].tid)
              /\ log[n].data = ReplyTo(RequestOf(log[n].tid))
    /\ fin.cause = "frame" =>
          rows[fin.row].valueDisplay =
              Num(Decoded(ReplyTo(RequestOf(fin.tid)), rows[fin.row].signedCheck))

====
